---- MODULE Spec2Model ----
(***************************************************************************)
(* Model of reportgen.py: the module-level script, main, process_files     *)
(* (file discovery, per-file loading, merge, aggregation, summary, call of *)
(* the external generator) and the report write.                           *)
(*                                                                         *)
(* A DataFrame is a record [columns, rows]; a row is a function from the   *)
(* frame's columns to cell values; every cell value is a string and the    *)
(* missing value (NaN) is the string Null.  Optional values (a local that  *)
(* is not bound yet, no exception, no result) are sequences of length 0/1. *)
(***************************************************************************)
EXTENDS Integers, Sequences, FiniteSets, TLC

\* ---- bounds of the model ----
MaxFiles == 2
MaxSheets == 2
MaxLen == 7
NumValues == 6
MaxWideRows == 2

\* ---- program constants ----
\* most_common(5)
TopN == 5

Null == "NaN"
SeverityCol == "Severity"
RankedCols == <<"Problem Name", "OS Name", "Software Name", "CVE">>
RecognisedCols == {SeverityCol} \cup {RankedCols[i] : i \in 1..Len(RankedCols)}

Min(a, b) == IF a <= b THEN a ELSE b

\* ---------------------------------------------------------------------
\* pandas / collections helpers, as the code uses them
\* ---------------------------------------------------------------------

\* file.suffix.lower()
Lower(suffix) ==
  CASE suffix = ".CSV" -> ".csv"
    [] suffix = ".XLSX" -> ".xlsx"
    [] suffix = ".XLS" -> ".xls"
    [] OTHER -> suffix

\* combined_df['X']: the cells of one column, in row order
Column(df, c) == [i \in 1..Len(df.rows) |-> df.rows[i][c]]

\* Series.dropna()
dropna(s) == SelectSeq(s, LAMBDA v : v # Null)

\* a plausible slip: only a repeat that directly follows the same value is
\* counted (runs, as itertools.groupby would)
RECURSIVE CounterRuns(_)
CounterRuns(s) ==
  IF s = <<>> THEN <<>>
  ELSE LET c == CounterRuns(SubSeq(s, 1, Len(s) - 1))
           v == s[Len(s)]
           hit == {i \in 1..Len(c) : c[i][1] = v}
       IN IF hit = {} THEN Append(c, <<v, 1>>)
          ELSE IF s[Len(s) - 1] = v
               THEN [c EXCEPT ![CHOOSE i \in hit : TRUE] = <<v, @[2] + 1>>]
               ELSE c

\* Counter(iterable): (value, count) items in first-insertion order
RECURSIVE Counter(_)
Counter(s) ==
  IF s = <<>> THEN <<>>
  ELSE LET c == Counter(SubSeq(s, 1, Len(s) - 1))
           v == s[Len(s)]
           hit == {i \in 1..Len(c) : c[i][1] = v}
       IN IF hit = {} THEN Append(c, <<v, 1>>)
          ELSE [c EXCEPT ![CHOOSE i \in hit : TRUE] = <<v, @[2] + 1>>]

\* a plausible slip: ties resolved towards the value seen last
RECURSIVE nlargest_lastseen(_, _)
nlargest_lastseen(n, items) ==
  IF n = 0 \/ items = <<>> THEN <<>>
  ELSE LET best == CHOOSE i \in 1..Len(items) :
                     \A j \in 1..Len(items) :
                        \/ items[j][2] < items[i][2]
                        \/ (items[j][2] = items[i][2] /\ j <= i)
           rest == [k \in 1..(Len(items) - 1) |->
                      IF k < best THEN items[k] ELSE items[k + 1]]
       IN <<items[best]>> \o nlargest_lastseen(n - 1, rest)

\* heapq.nlargest(n, items, key=itemgetter(1)): the n items of largest
\* count, largest first, equal counts in their order in items
RECURSIVE nlargest(_, _)
nlargest(n, items) ==
  IF n = 0 \/ items = <<>> THEN <<>>
  ELSE LET best == CHOOSE i \in 1..Len(items) :
                     \A j \in 1..Len(items) :
                        \/ items[j][2] < items[i][2]
                        \/ (items[j][2] = items[i][2] /\ i <= j)
           rest == [k \in 1..(Len(items) - 1) |->
                      IF k < best THEN items[k] ELSE items[k + 1]]
       IN <<items[best]>> \o nlargest(n - 1, rest)

\* Counter.most_common(n)
most_common(counter, n) == nlargest(n, counter)

\* Series.value_counts().to_dict(): value -> count over the non-null cells
value_counts(s) ==
  LET vals == {s[i] : i \in 1..Len(s)} \ {Null}
  IN [v \in vals |-> Cardinality({i \in 1..Len(s) : s[i] = v})]

\* a row aligned to the union of columns: absent cells become NaN
Reindex(row, cols) == [c \in cols |-> IF c \in DOMAIN row THEN row[c] ELSE Null]

RECURSIVE ConcatRows(_, _)
ConcatRows(objs, cols) ==
  IF objs = <<>> THEN <<>>
  ELSE LET df == objs[1]
       IN [i \in 1..Len(df.rows) |-> Reindex(df.rows[i], cols)]
          \o ConcatRows(Tail(objs), cols)

\* pd.concat(objs, ignore_index=True, sort=False) of a non-empty list
concat(objs) ==
  LET cols == UNION {objs[i].columns : i \in 1..Len(objs)}
  IN [columns |-> cols, rows |-> ConcatRows(objs, cols)]

\* a plausible slip: the column taken to be there without looking
PresentAlways(df, c) == TRUE

\* 'X' in combined_df
Present(df, c) == c \in df.columns

\* Counter(combined_df[c].dropna()).most_common(5) if c in combined_df else []
Ranking(df, c) ==
  IF Present(df, c) THEN most_common(Counter(dropna(Column(df, c))), TopN)
  ELSE <<>>

\* combined_df['Severity'].value_counts().to_dict() if present else {}
SeverityCounts(df) ==
  IF Present(df, SeverityCol) THEN value_counts(Column(df, SeverityCol))
  ELSE <<>>

\* ---------------------------------------------------------------------
\* Inputs: directories of files
\* ---------------------------------------------------------------------
\* A file is [suffix, opens, sheets]: sheets[i] = [ok, table] is what parsing
\* the i-th table of the file gives (read_csv for a CSV file, parse(sheet)
\* for a workbook): a DataFrame, or an exception when ok is FALSE.  opens
\* is FALSE when pd.ExcelFile(file) itself raises.

Stems == <<"a", "b", "c", "d">>
ValueNames == <<"v1", "v2", "v3", "v4", "v5", "v6", "v7", "v8">>
CveIds == <<"CVE-1", "CVE-2", "CVE-3", "CVE-4">>
ProblemNames == <<"SQL Injection", "XSS">>
SeverityLabels == <<"High", "Low">>
HostCol == "Host"

NoTable == [columns |-> {}, rows |-> <<>>]

\* The table held by sheet s of file stem: every row of a directory is
\* distinct, sheets differ in their columns and in their number of rows.
SheetTable(stem, s) ==
  LET cols == IF s % 2 = 1 THEN {HostCol, SeverityCol, "CVE"}
              ELSE {HostCol, "Problem Name", "CVE"}
      n == 2 - ((s - 1) % 3)
      cell(c, r) ==
        CASE c = HostCol -> stem
          [] c = SeverityCol -> SeverityLabels[r]
          [] c = "CVE" -> CveIds[((s - 1) % Len(CveIds)) + 1]
          [] OTHER -> ProblemNames[r]
  IN [columns |-> cols,
      rows |-> [r \in 1..n |-> [c \in cols |-> cell(c, r)]]]

CsvFiles(stem) ==
  {[suffix |-> ".csv", opens |-> TRUE,
    sheets |-> <<[ok |-> b, table |-> IF b THEN SheetTable(stem, 1) ELSE NoTable]>>] :
     b \in BOOLEAN}

Workbooks(stem) ==
  {[suffix |-> ".xlsx", opens |-> FALSE, sheets |-> <<>>]}
  \cup
  UNION {
    {[suffix |-> ".xlsx", opens |-> TRUE,
      sheets |-> [i \in 1..n |->
                    [ok |-> i # failAt,
                     table |-> IF i # failAt THEN SheetTable(stem, i) ELSE NoTable]]] :
       failAt \in 0..n} : n \in 1..MaxSheets}

\* the other spellings of the suffixes: they only decide the branch taken,
\* so one well-formed file of each
OtherSpellings(stem) ==
  {[suffix |-> ".CSV", opens |-> TRUE,
    sheets |-> <<[ok |-> TRUE, table |-> SheetTable(stem, 1)]>>],
   [suffix |-> ".XLS", opens |-> TRUE,
    sheets |-> <<[ok |-> TRUE, table |-> SheetTable(stem, 2)]>>]}

OtherFiles(stem) == {[suffix |-> ".txt", opens |-> TRUE, sheets |-> <<>>]}

FilesNamed(stem) ==
  CsvFiles(stem) \cup Workbooks(stem) \cup OtherSpellings(stem) \cup OtherFiles(stem)

Names == {Stems[i] : i \in 1..MaxFiles}

RECURSIVE Listings(_)
Listings(S) ==
  IF S = {} THEN {<<>>}
  ELSE LET n == CHOOSE x \in S : TRUE
       IN UNION {{[m \in DOMAIN l \cup {n} |-> IF m = n THEN f ELSE l[m]] :
                     f \in FilesNamed(n)} : l \in Listings(S \ {n})}

\* directory_path names an existing directory, nothing, or a non-directory
Directories ==
  {[kind |-> "dir", files |-> l] : l \in UNION {Listings(S) : S \in SUBSET Names}}
  \cup {[kind |-> k, files |-> <<>>] : k \in {"missing", "notdir"}}

Perms(S) ==
  {p \in [1..Cardinality(S) -> S] : \A i, j \in DOMAIN p : p[i] = p[j] => i = j}

\* ---------------------------------------------------------------------
\* State
\* ---------------------------------------------------------------------
VARIABLES
  entry,               \* "script": python reportgen.py; "main": a call of main
  pc,                  \* the statement about to run
  directory,           \* what directory_path names
  glob_order,          \* the entries in the order Path.glob('*') yields them
  idx,                 \* position of the for loop in glob_order
  all_data,            \* list of DataFrames (line 12)
  origin,              \* history: the file each element of all_data came from
  stdout,              \* what print has written
  combined_df,         \* line 28
  total_rows,          \* line 31
  severity_counts,     \* line 32
  top_vulnerabilities, \* line 34
  impacted_os,         \* line 36
  affected_software,   \* line 38
  cve_counts,          \* line 40
  summary_info,        \* line 42
  generate_calls,      \* calls of co.generate
  result,              \* what process_files returned
  exception,           \* the exception that ended the run
  written,             \* report files written by main
  main_calls,          \* invocations of main
  env_lookups,         \* history: the module-level lookups of lines 79, 80
  previous             \* history: the rows merged by the previous run

vars == <<entry, pc, directory, glob_order, idx, all_data, origin, stdout,
          combined_df, total_rows, severity_counts, top_vulnerabilities,
          impacted_os, affected_software, cve_counts, summary_info,
          generate_calls, result, exception, written, main_calls,
          env_lookups, previous>>

statistics == <<total_rows, severity_counts, top_vulnerabilities, impacted_os,
                affected_software, cve_counts, summary_info>>
loader == <<glob_order, idx, all_data, origin, stdout>>

\* the locals of a run before any statement has run
FreshRun ==
  /\ glob_order = <<>>
  /\ idx = 1
  /\ all_data = <<>>
  /\ origin = <<>>
  /\ stdout = <<>>
  /\ combined_df = <<>>
  /\ total_rows = 0
  /\ severity_counts = <<>>
  /\ top_vulnerabilities = <<>>
  /\ impacted_os = <<>>
  /\ affected_software = <<>>
  /\ cve_counts = <<>>
  /\ summary_info = <<>>
  /\ generate_calls = 0
  /\ result = <<>>
  /\ exception = <<>>
  /\ written = <<>>

Init ==
  /\ directory \in Directories
  /\ entry \in {"script", "main"}
  /\ pc = IF entry = "script" THEN "m78" ELSE "l11"
  /\ main_calls = IF entry = "script" THEN 0 ELSE 1
  /\ env_lookups = <<>>
  /\ previous = <<>>
  /\ FreshRun

\* ---------------------------------------------------------------------
\* process_files
\* ---------------------------------------------------------------------

\* Lines 11-14: the client, all_data = [], and the start of the glob.
\* glob yields the entries of an existing directory in the order the
\* operating system lists them (arbitrary), and nothing for a path that
\* does not exist or is not a directory.
GlobDirectory ==
  /\ pc = "l11"
  /\ \E order \in Perms(DOMAIN directory.files) : glob_order' = order
  /\ idx' = 1
  /\ all_data' = <<>>
  /\ origin' = <<>>
  /\ pc' = "l14"
  /\ UNCHANGED <<entry, directory, stdout, combined_df, statistics,
                 generate_calls, result, exception, written, main_calls,
                 env_lookups, previous>>

IsCsv(file) == Lower(file.suffix) = ".csv"
IsExcel(file) == Lower(file.suffix) \in {".xls", ".xlsx"}

\* a plausible slip: the append after the sheet loop, so only the last
\* parsed sheet is kept
RECURSIVE ParseSheetsLastOnly(_)
ParseSheetsLastOnly(sheets) ==
  IF sheets = <<>> THEN [tables |-> <<>>, raised |-> FALSE]
  ELSE IF ~sheets[1].ok THEN [tables |-> <<>>, raised |-> TRUE]
  ELSE LET rest == ParseSheetsLastOnly(Tail(sheets))
       IN IF rest.tables = <<>> THEN [tables |-> <<sheets[1].table>>, raised |-> rest.raised]
          ELSE rest

\* Lines 21-23: parse the sheets in order, appending each DataFrame as it is
\* parsed, until one raises.  tables: what was appended; raised: whether
\* the loop ended with an exception.
RECURSIVE ParseSheets(_)
ParseSheets(sheets) ==
  IF sheets = <<>> THEN [tables |-> <<>>, raised |-> FALSE]
  ELSE IF ~sheets[1].ok THEN [tables |-> <<>>, raised |-> TRUE]
  ELSE LET rest == ParseSheets(Tail(sheets))
       IN [tables |-> <<sheets[1].table>> \o rest.tables, raised |-> rest.raised]

CurrentName == glob_order[idx]
CurrentFile == directory.files[CurrentName]

\* line 25
ErrorLine(name, file) == [file |-> <<name, file.suffix>>, text |-> "Error reading"]

Stamp(n, name) == [i \in 1..n |-> name]

\* Lines 16-18 and 24-25: a CSV file
LoadCsv ==
  /\ pc = "l14"
  /\ idx <= Len(glob_order)
  /\ IsCsv(CurrentFile)
  /\ IF CurrentFile.sheets[1].ok
     THEN /\ all_data' = Append(all_data, CurrentFile.sheets[1].table)
          /\ origin' = Append(origin, CurrentName)
          /\ stdout' = stdout
     ELSE /\ stdout' = Append(stdout, ErrorLine(CurrentName, CurrentFile))
          /\ UNCHANGED <<all_data, origin>>
  /\ idx' = idx + 1
  /\ UNCHANGED <<entry, pc, directory, glob_order, combined_df, statistics,
                 generate_calls, result, exception, written, main_calls,
                 env_lookups, previous>>

\* Lines 19-25: a workbook, every sheet
LoadExcel ==
  /\ pc = "l14"
  /\ idx <= Len(glob_order)
  /\ ~IsCsv(CurrentFile)
  /\ IsExcel(CurrentFile)
  /\ LET parsed == IF CurrentFile.opens THEN ParseSheets(CurrentFile.sheets)
                   ELSE [tables |-> <<>>, raised |-> TRUE]
     IN /\ all_data' = all_data \o parsed.tables
        /\ origin' = origin \o Stamp(Len(parsed.tables), CurrentName)
        /\ stdout' = IF parsed.raised
                     THEN Append(stdout, ErrorLine(CurrentName, CurrentFile))
                     ELSE stdout
  /\ idx' = idx + 1
  /\ UNCHANGED <<entry, pc, directory, glob_order, combined_df, statistics,
                 generate_calls, result, exception, written, main_calls,
                 env_lookups, previous>>

\* Lines 16, 19: any other suffix falls through both branches
SkipOther ==
  /\ pc = "l14"
  /\ idx <= Len(glob_order)
  /\ ~IsCsv(CurrentFile)
  /\ ~IsExcel(CurrentFile)
  /\ idx' = idx + 1
  /\ UNCHANGED <<entry, pc, directory, glob_order, all_data, origin, stdout,
                 combined_df, statistics, generate_calls, result, exception,
                 written, main_calls, env_lookups, previous>>

\* pd.concat([]) raises ValueError("No objects to concatenate")
EmptyDatasetFailure ==
  [type |-> "ValueError", text |-> "No objects to concatenate", line |-> 28]

\* a plausible slip: an empty list merged into an empty frame
MergeOutcomeLenient(objs) ==
  IF objs = <<>> THEN [df |-> <<NoTable>>, exc |-> <<>>]
  ELSE [df |-> <<concat(objs)>>, exc |-> <<>>]

\* Line 28: pd.concat(all_data, ignore_index=True, sort=False)
MergeOutcome(objs) ==
  IF objs = <<>> THEN [df |-> <<>>, exc |-> <<EmptyDatasetFailure>>]
  ELSE [df |-> <<concat(objs)>>, exc |-> <<>>]

Merge ==
  /\ pc = "l14"
  /\ idx > Len(glob_order)
  /\ LET m == MergeOutcome(all_data)
     IN /\ combined_df' = m.df
        /\ exception' = m.exc
        /\ pc' = IF m.exc = <<>> THEN "l31" ELSE "raised"
  /\ UNCHANGED <<entry, directory, loader, statistics, generate_calls, result,
                 written, main_calls, env_lookups, previous>>

\* combined_df[c] raises KeyError when c is no column of the frame
KeyErrors(df) == {c \in RecognisedCols : Present(df, c) /\ c \notin df.columns}

\* Lines 42-47: the text, as the values it prints, in order
SummaryText(n, sev, vul, os, sw, cve) ==
  [total |-> n, severity |-> sev, vulnerabilities |-> vul, operating_systems |-> os,
   software |-> sw, cves |-> cve]

\* Lines 31-47
Aggregate ==
  /\ pc = "l31"
  /\ LET df == combined_df[1]
     IN IF KeyErrors(df) # {}
        THEN /\ exception' = <<[type |-> "KeyError", text |-> "column", line |-> 32]>>
             /\ pc' = "raised"
             /\ UNCHANGED statistics
        ELSE /\ total_rows' = Len(df.rows)
             /\ severity_counts' = SeverityCounts(df)
             /\ top_vulnerabilities' = Ranking(df, "Problem Name")
             /\ impacted_os' = Ranking(df, "OS Name")
             /\ affected_software' = Ranking(df, "Software Name")
             /\ cve_counts' = Ranking(df, "CVE")
             /\ summary_info' = <<SummaryText(total_rows', severity_counts',
                                    top_vulnerabilities', impacted_os',
                                    affected_software', cve_counts')>>
             /\ pc' = "l52"
             /\ exception' = exception
  /\ UNCHANGED <<entry, directory, loader, combined_df, generate_calls, result,
                 written, main_calls, env_lookups, previous>>

\* Lines 50-63: the generator answers; the dict is returned
GenerateReturns ==
  /\ pc = "l52"
  /\ generate_calls' = generate_calls + 1
  /\ result' = <<[key_statistics |-> summary_info[1],
                  ai_analysis |-> "generated text",
                  timestamp |-> "now"]>>
  /\ pc' = "returned"
  /\ UNCHANGED <<entry, directory, loader, combined_df, statistics, exception,
                 written, main_calls, env_lookups, previous>>

\* Lines 52-57: the generator call raises (network, credentials)
GenerateRaises ==
  /\ pc = "l52"
  /\ generate_calls' = generate_calls + 1
  /\ exception' = <<[type |-> "CohereError", text |-> "generate", line |-> 52]>>
  /\ pc' = "raised"
  /\ UNCHANGED <<entry, directory, loader, combined_df, statistics, result,
                 written, main_calls, env_lookups, previous>>

\* ---------------------------------------------------------------------
\* main and the module level
\* ---------------------------------------------------------------------

\* Lines 65-69
generate_markdown_report(analysis) ==
  [title |-> "Cybersecurity Vulnerability Report",
   generated_on |-> analysis.timestamp,
   key_statistics |-> analysis.key_statistics,
   insights |-> analysis.ai_analysis]

\* Lines 73-77
WriteReport ==
  /\ pc = "returned"
  /\ written' = Append(written, generate_markdown_report(result[1]))
  /\ pc' = "done"
  /\ UNCHANGED <<entry, directory, loader, combined_df, statistics,
                 generate_calls, result, exception, main_calls, env_lookups,
                 previous>>

\* the attributes of module os the script names
OsAttributes == {"getenv", "environ", "path"}
LookupAt(line) == IF line = "m79" THEN "getnv" ELSE "getenv"

\* a plausible slip: the lookup's exception swallowed, the script goes on
AfterStatementSwallow(line, raised) ==
  CASE line = "m78" -> "m79"
    [] line = "m79" -> "m80"
    [] line = "m80" -> "m81"
    [] OTHER -> "l11"

\* where the module level goes after the statement at line
AfterStatement(line, raised) ==
  IF raised THEN "crashed"
  ELSE CASE line = "m78" -> "m79"
         [] line = "m79" -> "m80"
         [] line = "m80" -> "m81"
         [] OTHER -> "l11"

\* Lines 78-81: load_dotenv(); os.getnv(...); os.getenv(...); main(...)
RunModuleLevel ==
  /\ entry = "script"
  /\ pc \in {"m78", "m79", "m80", "m81"}
  /\ LET isLookup == pc \in {"m79", "m80"}
         raised == isLookup /\ LookupAt(pc) \notin OsAttributes
     IN /\ env_lookups' = IF isLookup
                          THEN Append(env_lookups, [line |-> pc, returned |-> ~raised])
                          ELSE env_lookups
        /\ exception' = IF raised
                        THEN <<[type |-> "AttributeError", text |-> LookupAt(pc), line |-> 79]>>
                        ELSE exception
        /\ pc' = AfterStatement(pc, raised)
        /\ main_calls' = IF pc = "m81" THEN main_calls + 1 ELSE main_calls
  /\ UNCHANGED <<entry, directory, loader, combined_df, statistics,
                 generate_calls, result, written, previous>>

\* The same command run again on the same directory: a new process, whose
\* locals start fresh.  previous remembers what the first run merged.
Rerun ==
  /\ entry = "main"
  /\ pc \in {"done", "raised"}
  /\ previous = <<>>
  /\ previous' = <<[merged |-> combined_df # <<>>,
                    rows |-> IF combined_df = <<>> THEN <<>> ELSE combined_df[1].rows]>>
  /\ pc' = "l11"
  /\ glob_order' = <<>>
  /\ idx' = 1
  /\ all_data' = <<>>
  /\ origin' = <<>>
  /\ stdout' = <<>>
  /\ combined_df' = <<>>
  /\ total_rows' = 0
  /\ severity_counts' = <<>>
  /\ top_vulnerabilities' = <<>>
  /\ impacted_os' = <<>>
  /\ affected_software' = <<>>
  /\ cve_counts' = <<>>
  /\ summary_info' = <<>>
  /\ generate_calls' = 0
  /\ result' = <<>>
  /\ exception' = <<>>
  /\ written' = <<>>
  /\ UNCHANGED <<entry, directory, main_calls, env_lookups>>

Next ==
  \/ GlobDirectory
  \/ LoadCsv
  \/ LoadExcel
  \/ SkipOther
  \/ Merge
  \/ Aggregate
  \/ GenerateReturns
  \/ GenerateRaises
  \/ WriteReport
  \/ RunModuleLevel
  \/ Rerun

Spec == Init /\ [][Next]_vars

\* ---------------------------------------------------------------------
\* The aggregation on its own: the state at line 31 after one CSV file
\* holding an arbitrary table was loaded and merged
\* ---------------------------------------------------------------------

\* cell values named in order of first appearance; 0 stands for NaN
RECURSIVE FirstSeenSeqs(_)
FirstSeenSeqs(n) ==
  IF n = 0 THEN {<<>>}
  ELSE UNION {
         LET used == {s[i] : i \in 1..Len(s)}
             top == CHOOSE m \in used \cup {0} : \A x \in used : x <= m
         IN {Append(s, v) : v \in 0..Min(top + 1, NumValues)} :
         s \in FirstSeenSeqs(n - 1)}

\* the names run upwards or downwards, so first-seen order is not name order
Label(ascending, k) ==
  IF k = 0 THEN Null
  ELSE IF ascending THEN ValueNames[k] ELSE ValueNames[NumValues + 1 - k]

\* the four ranked columns, each holding the cells of s: forwards or
\* backwards, named upwards or downwards
TallTable(s) ==
  LET cols == {HostCol} \cup {RankedCols[ci] : ci \in 1..Len(RankedCols)}
      ci(c) == CHOOSE k \in 1..Len(RankedCols) : RankedCols[k] = c
      cell(c, i) == Label(ci(c) <= 2, IF ci(c) % 2 = 1 THEN s[i] ELSE s[Len(s) + 1 - i])
  IN [columns |-> cols,
      rows |-> [i \in 1..Len(s) |->
                  [c \in cols |-> IF c = HostCol THEN "h" ELSE cell(c, i)]]]

\* the recognised columns S, each cell as g gives it
WideTable(S, g) ==
  [columns |-> S \cup {HostCol},
   rows |-> [i \in 1..Len(g) |->
               [c \in S \cup {HostCol} |-> IF c = HostCol THEN "h" ELSE g[i][c]]]]

\* line 31 is about to run; all_data holds the one table df
AtAggregation(df) ==
  /\ entry = "main"
  /\ pc = "l31"
  /\ directory = [kind |-> "dir",
                  files |-> [n \in {"a"} |->
                               [suffix |-> ".csv", opens |-> TRUE,
                                sheets |-> <<[ok |-> TRUE, table |-> df]>>]]]
  /\ glob_order = <<"a">>
  /\ idx = 2
  /\ all_data = <<df>>
  /\ origin = <<"a">>
  /\ stdout = <<>>
  /\ combined_df = <<concat(<<df>>)>>
  /\ total_rows = 0
  /\ severity_counts = <<>>
  /\ top_vulnerabilities = <<>>
  /\ impacted_os = <<>>
  /\ affected_software = <<>>
  /\ cve_counts = <<>>
  /\ summary_info = <<>>
  /\ generate_calls = 0
  /\ result = <<>>
  /\ exception = <<>>
  /\ written = <<>>
  /\ main_calls = 1
  /\ env_lookups = <<>>
  /\ previous = <<>>

\* ranked columns of up to MaxLen cells over up to NumValues values, or
\* any subset of the recognised columns with up to MaxWideRows rows
InitAgg ==
  \/ \E n \in 0..MaxLen :
       \E s \in FirstSeenSeqs(n) : AtAggregation(TallTable(s))
  \/ \E S \in SUBSET RecognisedCols, r \in 0..MaxWideRows :
       \E g \in [1..r -> [S -> {ValueNames[1], Null}]] : AtAggregation(WideTable(S, g))

NextAgg == Aggregate

SpecAgg == InitAgg /\ [][NextAgg]_vars

\* ---------------------------------------------------------------------
\* What the claims speak of, stated over the inputs
\* ---------------------------------------------------------------------

Eligible(file) == Lower(file.suffix) \in {".csv", ".xls", ".xlsx"}

\* sheet i of the file was parsed into a Table: the file opened and no
\* sheet up to i raised
SheetLoaded(file, i) ==
  /\ Eligible(file)
  /\ file.opens
  /\ i \in 1..Len(file.sheets)
  /\ \A j \in 1..i : file.sheets[j].ok

\* loading the file raised
FileFailed(file) ==
  /\ Eligible(file)
  /\ \/ ~file.opens
     \/ \E j \in 1..Len(file.sheets) : ~file.sheets[j].ok

RECURSIVE RowsOfLoadedSheets(_, _)
RowsOfLoadedSheets(file, i) ==
  IF i > Len(file.sheets) THEN <<>>
  ELSE (IF SheetLoaded(file, i) THEN file.sheets[i].table.rows ELSE <<>>)
       \o RowsOfLoadedSheets(file, i + 1)

\* the rows of the loaded Tables: files in the given order, sheets in sheet
\* order, rows in table order
RECURSIVE RowsInOrder(_)
RowsInOrder(order) ==
  IF order = <<>> THEN <<>>
  ELSE RowsOfLoadedSheets(directory.files[order[1]], 1) \o RowsInOrder(Tail(order))

Aggregated == summary_info # <<>>
LoopOver == pc \notin {"m78", "m79", "m80", "m81", "crashed", "l11"} /\ idx > Len(glob_order)
Merged == pc \notin {"m78", "m79", "m80", "m81", "crashed", "l11", "l14"}

\* C1: once the statistics are computed, total_rows is the sum of the row
\* counts of the Tables that were loaded (one per CSV file, one per parsed
\* sheet): no row dropped, duplicated or added by the merge.
C1_TotalRowsIsSumOfLoadedTables ==
  Aggregated =>
    /\ total_rows = Len(RowsInOrder(glob_order))
    /\ total_rows = Len(combined_df[1].rows)

\* a run that loaded several Tables, lost a file, and counted its rows
C1_Witness ==
  /\ Aggregated
  /\ Len(all_data) >= 2
  /\ stdout # <<>>
  /\ total_rows >= 3

\* C2: a file whose load raised contributes no Table to the merge input,
\* raises nothing to the caller, and the remaining entries are still loaded.
C2_FailedFileContributesNothing ==
  /\ \A k \in 1..Len(origin) : ~FileFailed(directory.files[origin[k]])
  /\ (exception # <<>> => exception[1].line \notin 14..25)
  /\ (LoopOver =>
        \A n \in DOMAIN directory.files :
          LET f == directory.files[n]
          IN (Eligible(f) /\ ~FileFailed(f)) => \E k \in 1..Len(origin) : origin[k] = n)

StatisticsKeys == {"key_statistics", "ai_analysis", "timestamp"}

\* C3: the result of a successful run has, beside the statistics, the
\* generated text and the timestamp, a component holding the LoadFailures.
C3_ResultCarriesLoadFailures ==
  (result # <<>> /\ stdout # <<>>) => (DOMAIN result[1]) \ StatisticsKeys # {}

\* C4: with no Table loaded the run halts at the merge with the
\* empty-dataset failure: no statistics, no summary, no result, no call of
\* the generator, no report.
C4_EmptyDatasetHalts ==
  (entry = "main" /\ Merged /\ all_data = <<>>) =>
    /\ pc = "raised"
    /\ exception = <<EmptyDatasetFailure>>
    /\ combined_df = <<>>
    /\ summary_info = <<>>
    /\ total_rows = 0
    /\ result = <<>>
    /\ generate_calls = 0
    /\ written = <<>>

\* every eligible file of an existing directory failed, and the run halted
C4_Witness ==
  /\ entry = "main"
  /\ pc = "raised"
  /\ all_data = <<>>
  /\ directory.kind = "dir"
  /\ stdout # <<>>
  /\ exception = <<EmptyDatasetFailure>>

\* C5: a path that does not exist or is no directory fails the run with a
\* failure other than the empty-dataset failure.
C5_DirectoryNotFoundDistinct ==
  (entry = "main" /\ Merged /\ directory.kind # "dir") =>
    /\ pc = "raised"
    /\ exception # <<>>
    /\ exception # <<EmptyDatasetFailure>>

\* the merged rows are the loaded rows in the order the entries were visited
RowsFollowDiscovery ==
  combined_df # <<>> =>
    combined_df[1].rows =
      LET rows == RowsInOrder(glob_order)
      IN [i \in 1..Len(rows) |-> Reindex(rows[i], combined_df[1].columns)]

\* C8: the merged rows are in the concatenation order of the loads (files
\* in discovery order, sheets in sheet order, rows in table order), and a
\* second run over the same directory merges them in the same order.
C8_RowOrderDeterministic ==
  /\ RowsFollowDiscovery
  /\ (previous # <<>> /\ previous[1].merged /\ combined_df # <<>>) =>
       combined_df[1].rows = previous[1].rows

\* C10: run as a script, main is invoked at most once and only after both
\* lookups (line 79, then line 80) returned; once a lookup has raised, main
\* is never invoked, the generator never called, no report written.
C10_MainOnlyAfterLookups ==
  entry = "script" =>
    /\ main_calls <= 1
    /\ Len(env_lookups) <= 2
    /\ \A i \in 1..Len(env_lookups) : env_lookups[i].line = <<"m79", "m80">>[i]
    /\ main_calls = 1 =>
         (Len(env_lookups) = 2 /\ \A i \in 1..2 : env_lookups[i].returned)
    /\ (\E i \in 1..Len(env_lookups) : ~env_lookups[i].returned) =>
         (main_calls = 0 /\ generate_calls = 0 /\ written = <<>> /\ pc = "crashed")

\* the script has stopped at a lookup that raised
C10_Witness ==
  /\ entry = "script"
  /\ pc = "crashed"
  /\ env_lookups # <<>>
  /\ ~env_lookups[Len(env_lookups)].returned
  /\ main_calls = 0

\* ---------------------------------------------------------------------
\* The rankings
\* ---------------------------------------------------------------------

\* the ranking the run computed for RankedCols[ci]
RankingOf(ci) ==
  CASE ci = 1 -> top_vulnerabilities
    [] ci = 2 -> impacted_os
    [] ci = 3 -> affected_software
    [] OTHER -> cve_counts

CellsOf(df, c) == IF c \in df.columns THEN Column(df, c) ELSE <<>>
DistinctValues(cells) == {cells[i] : i \in 1..Len(cells)} \ {Null}
Occurrences(cells, v) == Cardinality({i \in 1..Len(cells) : cells[i] = v})
FirstSeen(cells, v) ==
  CHOOSE i \in 1..Len(cells) : cells[i] = v /\ \A j \in 1..(i - 1) : cells[j] # v
ValuesIn(r) == {r[i][1] : i \in 1..Len(r)}
PairsIn(r) == {r[i] : i \in 1..Len(r)}
CountsIn(r) == [i \in 1..Len(r) |-> r[i][2]]

\* (v, n) comes before (w, m) in the ranking order
Before(cells, v, n, w, m) ==
  n > m \/ (n = m /\ FirstSeen(cells, v) < FirstSeen(cells, w))

\* C6: the ranking of a present column lists distinct non-null values with
\* their counts, by count descending, ties in first-seen order, cut to the
\* first 5: min(5, #distinct) entries, every excluded value after every
\* kept one in that order.
C6_RankingIsTopFive ==
  Aggregated =>
    \A ci \in 1..Len(RankedCols) :
      LET df == combined_df[1]
          c == RankedCols[ci]
          r == RankingOf(ci)
          cells == CellsOf(df, c)
          vals == DistinctValues(cells)
      IN c \in df.columns =>
           /\ Len(r) = Min(TopN, Cardinality(vals))
           /\ \A i \in 1..Len(r) :
                r[i][1] \in vals /\ r[i][2] = Occurrences(cells, r[i][1])
           /\ \A i, j \in 1..Len(r) :
                i < j => Before(cells, r[i][1], r[i][2], r[j][1], r[j][2])
           /\ \A v \in vals \ ValuesIn(r) :
                \A i \in 1..Len(r) :
                  /\ r[i][2] >= Occurrences(cells, v)
                  /\ Before(cells, r[i][1], r[i][2], v, Occurrences(cells, v))

\* a column of more than 5 distinct values, ranked: 5 entries, not all of
\* one count
C6_Witness ==
  /\ Aggregated
  /\ \E ci \in 1..Len(RankedCols) :
       LET cells == CellsOf(combined_df[1], RankedCols[ci])
           r == RankingOf(ci)
       IN /\ Cardinality(DistinctValues(cells)) > TopN
          /\ Len(r) = TopN
          /\ r[1][2] > r[TopN][2]

\* the frame with rows k and k+1 exchanged
SwapRows(df, k) ==
  [df EXCEPT !.rows = [i \in 1..Len(df.rows) |->
                         IF i = k THEN df.rows[k + 1]
                         ELSE IF i = k + 1 THEN df.rows[k]
                         ELSE df.rows[i]]]

\* a value left out of the ranking has the count of the last entry kept
TieAcrossCut(cells, r) ==
  /\ r # <<>>
  /\ \E v \in DistinctValues(cells) \ ValuesIn(r) :
       Occurrences(cells, v) = r[Len(r)][2]

\* C7 as claimed: recounting after any exchange of rows gives a ranking
\* with the same set of (value, count) pairs.
C7_SamePairsAfterShuffle ==
  Aggregated =>
    \A ci \in 1..Len(RankedCols) :
      \A k \in 1..(Len(combined_df[1].rows) - 1) :
        PairsIn(Ranking(SwapRows(combined_df[1], k), RankedCols[ci]))
          = PairsIn(RankingOf(ci))

\* C7 amended: recounting after any exchange of neighbouring rows (these
\* generate every permutation) gives a ranking with the same sequence of
\* counts, and with the same set of (value, count) pairs unless a value
\* left out of the ranking ties with the last entry kept.
C7_SameCountsAfterShuffle ==
  Aggregated =>
    \A ci \in 1..Len(RankedCols) :
      \A k \in 1..(Len(combined_df[1].rows) - 1) :
        LET shuffled == Ranking(SwapRows(combined_df[1], k), RankedCols[ci])
            r == RankingOf(ci)
        IN /\ CountsIn(shuffled) = CountsIn(r)
           /\ ~TieAcrossCut(CellsOf(combined_df[1], RankedCols[ci]), r) =>
                PairsIn(shuffled) = PairsIn(r)

\* an exchange of rows that changes the ranking's order, and only that
C7_Witness ==
  /\ Aggregated
  /\ \E ci \in 1..Len(RankedCols) :
       \E k \in 1..(Len(combined_df[1].rows) - 1) :
         LET shuffled == Ranking(SwapRows(combined_df[1], k), RankedCols[ci])
             r == RankingOf(ci)
         IN /\ shuffled # r
            /\ PairsIn(shuffled) = PairsIn(r)
            /\ Len(r) = TopN
            /\ ~TieAcrossCut(CellsOf(combined_df[1], RankedCols[ci]), r)

\* ---------------------------------------------------------------------
\* Missing columns
\* ---------------------------------------------------------------------

\* the frame without column c
DropColumn(df, c) ==
  [columns |-> df.columns \ {c},
   rows |-> [i \in 1..Len(df.rows) |-> [x \in df.columns \ {c} |-> df.rows[i][x]]]]

\* what the run computed for recognised column c
ComputedFor(c) ==
  CASE c = SeverityCol -> severity_counts
    [] c = "Problem Name" -> top_vulnerabilities
    [] c = "OS Name" -> impacted_os
    [] c = "Software Name" -> affected_software
    [] OTHER -> cve_counts

\* what lines 32-40 compute for column c of frame df
StatisticFor(df, c) == IF c = SeverityCol THEN SeverityCounts(df) ELSE Ranking(df, c)

\* C9: the aggregation raises nothing; a recognised column absent from the
\* frame has an empty result; and taking a recognised column out of the
\* frame empties its result and leaves total_rows and every other result
\* as they are with the column present.
C9_MissingColumnIsEmpty ==
  /\ (exception # <<>> => exception[1].type # "KeyError")
  /\ Aggregated =>
       \A c \in RecognisedCols :
         LET df == combined_df[1]
             without == DropColumn(df, c)
         IN /\ (c \notin df.columns => ComputedFor(c) = <<>>)
            /\ KeyErrors(without) = {}
            /\ StatisticFor(without, c) = <<>>
            /\ Len(without.rows) = total_rows
            /\ \A other \in RecognisedCols \ {c} :
                 StatisticFor(without, other) = ComputedFor(other)

\* a frame with rows that lacks one recognised column and has another
C9_Witness ==
  /\ Aggregated
  /\ total_rows > 0
  /\ \E c, other \in RecognisedCols :
       /\ c \notin combined_df[1].columns
       /\ ComputedFor(c) = <<>>
       /\ other \in combined_df[1].columns
       /\ ComputedFor(other) # <<>>

====
